---------------------------- MODULE Spec2Model ----------------------------
(***************************************************************************)
(* Model of colcon_krs/subverb/hypervisor.py: HypervisorSubverb.main,      *)
(* argument_checks and xen_fixes.  One action per step of main; the        *)
(* module-level TEMPLATE_CONFIG string is a sequence of configuration      *)
(* lines, the staging directory and the firmware directory are sets of     *)
(* file names.                                                             *)
(***************************************************************************)
EXTENDS Integers, Sequences, FiniteSets, TLC

(* ------------------------------ bounds -------------------------------- *)
MaxDomU == 2
MaxDom0less == 2
MaxRamdisk == 2
MaxRootfs == 4
MaxMissing == 1
MaxRuns == 2
MaxCarried == 3

(* ------------------------- command-line values ------------------------ *)
\* choices=["preempt_rt", "vanilla"] of --dom0, --domU, --dom0less
Variants == {"vanilla", "preempt_rt"}

\* an option that was not given: argparse leaves None (action="store" /
\* action="append" without a default).  An "append" option that was given
\* holds a non-empty list, so the empty sequence stands for None.
None == <<>>

\* the paths given with --rootfs and --ramdisk are opaque strings to the
\* program; the n-th occurrence of the option carries the n-th name
RootfsNames == <<"r0.cpio.gz", "r1.cpio.gz", "r2.cpio.gz", "r3.cpio.gz",
                 "r4.cpio.gz", "r5.cpio.gz">>
RamdiskNames == <<"d0.cpio", "d1.cpio", "d2.cpio", "d3.cpio">>

RECURSIVE SeqsUpTo(_, _)
SeqsUpTo(S, n) ==
    IF n = 0 THEN {<<>>}
    ELSE LET shorter == SeqsUpTo(S, n - 1)
         IN  shorter \cup {Append(s, x) : s \in shorter, x \in S}

Prefixes(names, n) == {SubSeq(names, 1, k) : k \in 0..n}

default_ramdisk == "initrd.cpio"
default_rootfs == "rootfs.cpio.gz"

\* the kernel file a variant selects
KernelFile(variant) == IF variant = "vanilla" THEN "Image" ELSE "Image_PREEMPT_RT"

(* --------------------------- configuration ---------------------------- *)
\* str() of a non-negative integer
Digit == <<"0", "1", "2", "3", "4", "5", "6", "7", "8", "9">>

RECURSIVE Str(_)
Str(n) == IF n < 10 THEN Digit[n + 1] ELSE Str(n \div 10) \o Digit[(n % 10) + 1]

\* one line of the configuration text: KEY=value (i = -1) or KEY[i]="value"
Line(key, idx, val) == [k |-> key, i |-> idx, v |-> val]

TEMPLATE_CONFIG_INITIAL ==
    << Line("MEMORY_START", -1, "0x0"),
       Line("MEMORY_END", -1, "0x80000000"),
       Line("DEVICE_TREE", -1, "system.dtb"),
       Line("BOOTBIN", -1, "BOOT.BIN"),
       Line("XEN", -1, "xen"),
       Line("UBOOT_SOURCE", -1, "boot.source"),
       Line("UBOOT_SCRIPT", -1, "boot.scr") >>


(* ------------------------------- state -------------------------------- *)
VARIABLES
    dom0_arg,        \* context.args.dom0_arg: a variant, or "none" for None
    domU_args,       \* context.args.domU_args
    dom0less_args,   \* context.args.dom0less_args
    ramdisk_args,    \* context.args.ramdisk_args
    rootfs_args,     \* context.args.rootfs_args
    debug,           \* context.args.debug
    TEMPLATE_CONFIG, \* the module-level configuration text
    num_domus,       \* local of main
    num_dom0less,    \* local of main
    i,               \* position of the running for loop (1-based)
    pc,              \* the step of main that runs next, or "done"
    status,          \* how main ended: "running" until it has
    auxdir,          \* whether /tmp/hypervisor exists
    staged,          \* the files in /tmp/hypervisor, xen.cfg aside
    xen_cfg,         \* contents of /tmp/hypervisor/xen.cfg, <<>> if absent
    firmware,        \* the artifacts present in the firmware directory
    sd_card_img,     \* whether firmware_dir/sd_card.img exists
    sd_card_img_old, \* whether firmware_dir/sd_card.img.old exists
    mounted,         \* the raw-image partitions currently mounted
    invoked,         \* the external commands this run has invoked, in order
    failedCmd,       \* the first command of this run with output on stderr
    cfgStart,        \* Len(TEMPLATE_CONFIG) when this run of main began
    runs             \* calls of main made so far in this process

args == <<dom0_arg, domU_args, dom0less_args, ramdisk_args, rootfs_args, debug>>
locals == <<num_domus, num_dom0less, i>>
files == <<auxdir, staged, xen_cfg, firmware, sd_card_img, sd_card_img_old, mounted>>
vars == <<args, TEMPLATE_CONFIG, locals, pc, status, files, invoked, failedCmd,
          cfgStart, runs>>

\* the artifacts main reads from the firmware directory
KernelArtifacts == {"kernel/Image", "kernel/Image_PREEMPT_RT"}
BootArtifacts == {"bootbin/BOOT.BIN.xen", "xen", "device_tree/system.dtb.xen"}
Range(s) == {s[n] : n \in 1..Len(s)}
Artifacts ==
    KernelArtifacts \cup BootArtifacts \cup {default_ramdisk, default_rootfs}
    \cup Range(SubSeq(RootfsNames, 1, MaxRootfs))
    \cup Range(SubSeq(RamdiskNames, 1, MaxRamdisk))

\* the artifacts a run with these arguments looks for in the firmware
\* directory; no other file of the directory is ever looked at
Reads ==
    IF dom0_arg = "none" THEN {}
    ELSE {"kernel/" \o KernelFile(v) :
              v \in {dom0_arg} \cup Range(domU_args) \cup Range(dom0less_args)}
         \cup BootArtifacts \cup {default_ramdisk, default_rootfs}
         \cup Range(rootfs_args) \cup Range(ramdisk_args)

\* what argparse can hand to main (add_arguments)
ArgsOK ==
    /\ dom0_arg \in Variants \cup {"none"}
    /\ domU_args \in SeqsUpTo(Variants, MaxDomU)
    /\ dom0less_args \in SeqsUpTo(Variants, MaxDom0less)
    /\ ramdisk_args \in Prefixes(RamdiskNames, MaxRamdisk)
    /\ rootfs_args \in Prefixes(RootfsNames, MaxRootfs)
    /\ debug \in BOOLEAN

Init ==
    /\ ArgsOK
    /\ TEMPLATE_CONFIG = TEMPLATE_CONFIG_INITIAL
    /\ num_domus = 0
    /\ num_dom0less = 0
    /\ i = 1
    /\ pc = "start"
    /\ status = "running"
    /\ auxdir \in BOOLEAN
    /\ staged = {}
    /\ xen_cfg = <<>>
    /\ \E missing \in SUBSET Reads :
          /\ Cardinality(missing) <= MaxMissing
          /\ firmware = Artifacts \ missing
    /\ sd_card_img \in BOOLEAN
    /\ sd_card_img_old \in BOOLEAN
    /\ mounted = {}
    /\ invoked = <<>>
    /\ failedCmd = "none"
    /\ cfgStart = Len(TEMPLATE_CONFIG_INITIAL)
    /\ runs = 1

(* ----------------------- external collaborators ----------------------- *)
\* exists(path) of colcon_krs.subverb, for a path in the firmware directory
exists(path) == path \in firmware

\* run("cp firmware_dir/src auxdir/dst"): stderr is non-empty when the source
\* is missing or the staging directory does not exist
CpErrs(src) == ~ (src \in firmware /\ auxdir)

\* mount_rawimage(rawimage_path, partition) and umount_rawimage(partition) of
\* colcon_krs.subverb: the partitions of sd_card.img mounted afterwards
mount_rawimage(partition) == mounted \cup {partition}
umount_rawimage(partition) == mounted \ {partition}

\* the staging directory after the cp commands of one step
Cp(copies) == staged \cup {c[2] : c \in {c \in copies : ~ CpErrs(c[1])}}

\* the first failing command of the run is remembered
NoteErrs(errs, cmd) == IF errs /\ failedCmd = "none" THEN cmd ELSE failedCmd

\* sys.exit(code), or an uncaught exception, ends main
Ends(how) == pc' = "done" /\ status' = how

ExitCode(how) ==
    CASE how = "exit0" -> 0
      [] how = "returned" -> 0
      [] OTHER -> 1

(* -------------------------- argument_checks --------------------------- *)
Truthy(a) == a # None

\* the outcome of argument_checks(context): "ok" when it returns, the
\* validation error it exits on, or "TypeError" when len() is applied to None
argument_checks ==
    LET R == ramdisk_args
        F == rootfs_args
        U == domU_args
        L == dom0less_args
    IN  IF \/ Truthy(R) /\ Truthy(U) /\ Truthy(L) /\ Len(U) + Len(L) < Len(R)
           \/ Truthy(R) /\ Truthy(L) /\ Len(L) < Len(R)
        THEN "TooManyRamdisks"
        ELSE IF Truthy(F) /\ (U = None \/ L = None)
        THEN "TypeError"
        ELSE IF Truthy(F) /\ Len(U) + Len(L) + 1 < Len(F)
        THEN "TooManyRootfs"
        ELSE IF Truthy(R) /\ Truthy(F) /\ Len(U) + Len(L) + 1 < Len(R) + Len(F)
        THEN "TooManyOverrides"
        ELSE "ok"

(* -------------------------------- main -------------------------------- *)
CheckRequestedAfterMkdir ==
    /\ pc = "start"
    /\ IF dom0_arg = "none" /\ ~ Truthy(domU_args) /\ ~ Truthy(dom0less_args)
       THEN Ends("exit0") /\ invoked' = Append(invoked, "mkdir")
       ELSE pc' = "mkdir" /\ status' = status /\ invoked' = invoked
    /\ UNCHANGED <<args, TEMPLATE_CONFIG, locals, files, failedCmd, cfgStart, runs>>

\* lines 331-338: nothing requested exits with status 0
CheckRequested ==
    /\ pc = "start"
    /\ IF dom0_arg = "none" /\ ~ Truthy(domU_args) /\ ~ Truthy(dom0less_args)
       THEN Ends("exit0")
       ELSE pc' = "mkdir" /\ status' = status
    /\ UNCHANGED <<args, TEMPLATE_CONFIG, locals, files, invoked, failedCmd,
                   cfgStart, runs>>

\* line 351: run("mkdir /tmp/hypervisor"); its stderr is dropped
Mkdir ==
    /\ pc = "mkdir"
    /\ invoked' = Append(invoked, "mkdir")
    /\ failedCmd' = NoteErrs(auxdir, "mkdir")
    /\ auxdir' = TRUE
    /\ pc' = "save"
    /\ UNCHANGED <<args, TEMPLATE_CONFIG, locals, status, staged, xen_cfg,
                   firmware, sd_card_img, sd_card_img_old, mounted, cfgStart, runs>>

\* lines 356-376: keep the last image as sd_card.img.old, delete the older one.
\* Both commands act on files exists() has just found; their stderr is dropped.
SaveLastImage ==
    /\ pc = "save"
    /\ IF sd_card_img
       THEN /\ invoked' = (IF sd_card_img_old THEN Append(invoked, "rm") ELSE invoked)
                          \o <<"mv">>
            /\ sd_card_img' = FALSE
            /\ sd_card_img_old' = TRUE
       ELSE UNCHANGED <<invoked, sd_card_img, sd_card_img_old>>
    /\ pc' = "dom0"
    /\ UNCHANGED <<args, TEMPLATE_CONFIG, locals, status, auxdir, staged, xen_cfg,
                   firmware, mounted, failedCmd, cfgStart, runs>>

\* lines 381, 765-766: without --dom0 main prints a message and returns
NoDom0 ==
    /\ pc = "dom0"
    /\ dom0_arg = "none"
    /\ Ends("returned")
    /\ UNCHANGED <<args, TEMPLATE_CONFIG, locals, files, invoked, failedCmd,
                   cfgStart, runs>>

\* line 384: self.argument_checks(context)
ArgumentChecks ==
    /\ pc = "dom0"
    /\ dom0_arg # "none"
    /\ IF argument_checks = "ok"
       THEN pc' = "dom0_kernel" /\ status' = status
       ELSE Ends(argument_checks)
    /\ UNCHANGED <<args, TEMPLATE_CONFIG, locals, files, invoked, failedCmd,
                   cfgStart, runs>>

\* lines 387-410: stage dom0's kernel and emit DOM0_KERNEL (argparse admits no
\* other value of --dom0, so the branch of line 411 is never taken)
Dom0Kernel ==
    /\ pc = "dom0_kernel"
    /\ LET kernel == KernelFile(dom0_arg)
       IN  /\ invoked' = Append(invoked, "cp")
           /\ failedCmd' = NoteErrs(CpErrs("kernel/" \o kernel), "cp")
           /\ staged' = Cp({<<"kernel/" \o kernel, kernel>>})
           /\ TEMPLATE_CONFIG' = Append(TEMPLATE_CONFIG, Line("DOM0_KERNEL", -1, kernel))
    /\ pc' = "dom0_rootfs"
    /\ UNCHANGED <<args, locals, status, auxdir, xen_cfg, firmware, sd_card_img,
                   sd_card_img_old, mounted, cfgStart, runs>>

\* the rootfs of dom0 (lines 419-436): the default, or the first override
Dom0RootfsOf(overrides) ==
    IF ~ Truthy(overrides) \/ Len(overrides) < 1
    THEN default_rootfs
    ELSE overrides[num_domus + 1]

\* lines 419-438: dom0's rootfs and DOM0_ROOTFS
Dom0Rootfs ==
    /\ pc = "dom0_rootfs"
    /\ IF ~ Truthy(rootfs_args) \/ Len(rootfs_args) < 1
       THEN IF ~ exists(default_rootfs)
            THEN /\ Ends("AssertionError")
                 /\ UNCHANGED <<TEMPLATE_CONFIG, locals, staged, invoked, failedCmd>>
            ELSE /\ invoked' = Append(invoked, "cp")
                 /\ failedCmd' = NoteErrs(CpErrs(default_rootfs), "cp")
                 /\ staged' = Cp({<<default_rootfs, default_rootfs>>})
                 /\ TEMPLATE_CONFIG' =
                        Append(TEMPLATE_CONFIG,
                               Line("DOM0_ROOTFS", -1, Dom0RootfsOf(rootfs_args)))
                 /\ pc' = "domU" /\ status' = status
                 /\ UNCHANGED locals
       ELSE /\ num_domus' = num_domus + 1
            /\ TEMPLATE_CONFIG' =
                   Append(TEMPLATE_CONFIG,
                          Line("DOM0_ROOTFS", -1, Dom0RootfsOf(rootfs_args)))
            /\ pc' = "domU" /\ status' = status
            /\ UNCHANGED <<num_dom0less, i, staged, invoked, failedCmd>>
    /\ UNCHANGED <<args, auxdir, xen_cfg, firmware, sd_card_img, sd_card_img_old,
                   mounted, cfgStart, runs>>

\* DomURootfsOf with the cursor not moved past dom0's override: the domU
\* reads the position before its own
DomURootfsOfNoSkip(overrides, n) ==
    IF ~ Truthy(overrides) \/ n >= Len(overrides)
    THEN default_rootfs
    ELSE overrides[n]

\* the rootfs of the domU processed when the rootfs cursor is at n (447-452)
DomURootfsOf(overrides, n) ==
    IF ~ Truthy(overrides) \/ n >= Len(overrides)
    THEN default_rootfs
    ELSE overrides[n + 1]

\* lines 444-492: one iteration of the loop over domU_args
DomU ==
    /\ pc = "domU"
    /\ i <= Len(domU_args)
    /\ LET kernel == KernelFile(domU_args[i])
           rootfs == DomURootfsOf(rootfs_args, num_domus)
       IN  /\ invoked' = Append(invoked, "cp")
           /\ failedCmd' = NoteErrs(CpErrs("kernel/" \o kernel), "cp")
           /\ staged' = Cp({<<"kernel/" \o kernel, kernel>>})
           /\ TEMPLATE_CONFIG' = TEMPLATE_CONFIG \o
                  << Line("DOMU_KERNEL", num_domus, kernel),
                     Line("DOMU_ROOTFS", num_domus, rootfs),
                     Line("DOMU_NOBOOT", num_domus, "y") >>
    /\ num_domus' = num_domus + 1
    /\ i' = i + 1
    /\ UNCHANGED <<args, num_dom0less, pc, status, auxdir, xen_cfg, firmware,
                   sd_card_img, sd_card_img_old, mounted, cfgStart, runs>>

\* line 443/444: the loop over domU_args is over (or was skipped)
DomUDone ==
    /\ pc = "domU"
    /\ i > Len(domU_args)
    /\ pc' = "dom0less"
    /\ i' = 1
    /\ UNCHANGED <<args, TEMPLATE_CONFIG, num_domus, num_dom0less, status, files,
                   invoked, failedCmd, cfgStart, runs>>

\* the ramdisk of the dom0less processed when the ramdisk cursor is at n (500-505)
Dom0lessRamdiskOf(overrides, n) ==
    IF ~ Truthy(overrides) \/ n >= Len(overrides)
    THEN default_ramdisk
    ELSE overrides[n + 1]

\* lines 498-545: one iteration of the loop over dom0less_args
Dom0less ==
    /\ pc = "dom0less"
    /\ i <= Len(dom0less_args)
    /\ LET kernel == KernelFile(dom0less_args[i])
           ramdisk == Dom0lessRamdiskOf(ramdisk_args, num_dom0less)
       IN  /\ invoked' = Append(invoked, "cp")
           /\ failedCmd' = NoteErrs(CpErrs("kernel/" \o kernel), "cp")
           /\ staged' = Cp({<<"kernel/" \o kernel, kernel>>})
           /\ TEMPLATE_CONFIG' = TEMPLATE_CONFIG \o
                  << Line("DOMU_KERNEL", num_dom0less + num_domus, kernel),
                     Line("DOMU_RAMDISK", num_dom0less + num_domus, ramdisk) >>
    /\ num_dom0less' = num_dom0less + 1
    /\ i' = i + 1
    /\ UNCHANGED <<args, num_domus, pc, status, auxdir, xen_cfg, firmware,
                   sd_card_img, sd_card_img_old, mounted, cfgStart, runs>>

\* lines 548-554: the loop over dom0less_args is over; emit NUM_DOMUS
NumDomus ==
    /\ pc = "dom0less"
    /\ i > Len(dom0less_args)
    /\ num_domus' = num_domus + num_dom0less
    /\ TEMPLATE_CONFIG' =
           Append(TEMPLATE_CONFIG, Line("NUM_DOMUS", -1, Str(num_domus + num_dom0less)))
    /\ pc' = "copy_boot"
    /\ i' = 1
    /\ UNCHANGED <<args, num_dom0less, status, files, invoked, failedCmd,
                   cfgStart, runs>>

\* lines 562-602: stage BOOT.BIN, xen, system.dtb and the two defaults; the
\* stderr of every cp is dropped
CopyBootAndDefaults ==
    /\ pc = "copy_boot"
    /\ LET copies == { <<"bootbin/BOOT.BIN.xen", "BOOT.BIN">>,
                       <<"xen", "xen">>,
                       <<"device_tree/system.dtb.xen", "system.dtb">>,
                       <<default_ramdisk, default_ramdisk>>,
                       <<default_rootfs, default_rootfs>> }
       IN  /\ invoked' = invoked \o <<"cp", "cp", "cp", "cp", "cp">>
           /\ failedCmd' = NoteErrs(\E c \in copies : CpErrs(c[1]), "cp")
           /\ staged' = Cp(copies)
    /\ pc' = "copy_ramdisks"
    /\ UNCHANGED <<args, TEMPLATE_CONFIG, locals, status, auxdir, xen_cfg, firmware,
                   sd_card_img, sd_card_img_old, mounted, cfgStart, runs>>

\* CopyOverride without its assert: the cp of an absent override fails, its
\* stderr is dropped like that of every other cp, and the loop goes on
CopyOverrideUnasserted(path) ==
    /\ invoked' = Append(invoked, "cp")
    /\ failedCmd' = NoteErrs(CpErrs(path), "cp")
    /\ staged' = Cp({<<path, path>>})
    /\ i' = i + 1
    /\ UNCHANGED <<pc, status>>

\* one iteration of a loop that asserts an override exists and stages it
\* (lines 606-620 and 624-638)
CopyOverride(path) ==
    IF ~ exists(path)
    THEN /\ Ends("AssertionError")
         /\ UNCHANGED <<i, staged, invoked, failedCmd>>
    ELSE /\ invoked' = Append(invoked, "cp")
         /\ failedCmd' = NoteErrs(CpErrs(path), "cp")
         /\ staged' = Cp({<<path, path>>})
         /\ i' = i + 1
         /\ UNCHANGED <<pc, status>>

\* lines 605-620: one iteration of the loop over ramdisk_args
CopyRamdisk ==
    /\ pc = "copy_ramdisks"
    /\ i <= Len(ramdisk_args)
    /\ CopyOverride(ramdisk_args[i])
    /\ UNCHANGED <<args, TEMPLATE_CONFIG, num_domus, num_dom0less, auxdir, xen_cfg,
                   firmware, sd_card_img, sd_card_img_old, mounted, cfgStart, runs>>

CopyRamdisksDone ==
    /\ pc = "copy_ramdisks"
    /\ i > Len(ramdisk_args)
    /\ pc' = "copy_rootfs"
    /\ i' = 1
    /\ UNCHANGED <<args, TEMPLATE_CONFIG, num_domus, num_dom0less, status, files,
                   invoked, failedCmd, cfgStart, runs>>

\* lines 623-638: one iteration of the loop over rootfs_args
CopyRootfs ==
    /\ pc = "copy_rootfs"
    /\ i <= Len(rootfs_args)
    /\ CopyOverride(rootfs_args[i])
    /\ UNCHANGED <<args, TEMPLATE_CONFIG, num_domus, num_dom0less, auxdir, xen_cfg,
                   firmware, sd_card_img, sd_card_img_old, mounted, cfgStart, runs>>

\* lines 641-644: the loop over rootfs_args is over; write xen.cfg
WriteConfig ==
    /\ pc = "copy_rootfs"
    /\ i > Len(rootfs_args)
    /\ xen_cfg' = TEMPLATE_CONFIG
    /\ pc' = "bootscript"
    /\ i' = 1
    /\ UNCHANGED <<args, TEMPLATE_CONFIG, num_domus, num_dom0less, status, auxdir,
                   staged, firmware, sd_card_img, sd_card_img_old, mounted, invoked,
                   failedCmd, cfgStart, runs>>

\* outs, errs = run(cmd); if errs: sys.exit(1) -- the checked commands of main
\* and xen_fixes.  What an external tool writes to stderr is not decided by
\* this program.
Checked(cmd, next) ==
    /\ invoked' = Append(invoked, cmd)
    /\ \E errs \in BOOLEAN :
          /\ failedCmd' = NoteErrs(errs, cmd)
          /\ IF errs THEN Ends("exit1") ELSE pc' = next /\ status' = status

\* lines 646-671: uboot-script-gen
BootScript ==
    /\ pc = "bootscript"
    /\ Checked("uboot-script-gen", "whoami")
    /\ UNCHANGED <<args, TEMPLATE_CONFIG, locals, files, cfgStart, runs>>

\* lines 677-684
Whoami ==
    /\ pc = "whoami"
    /\ Checked("whoami", "disk_image")
    /\ UNCHANGED <<args, TEMPLATE_CONFIG, locals, files, cfgStart, runs>>

\* lines 686-710: disk_image writes firmware_dir/sd_card.img
DiskImage ==
    /\ pc = "disk_image"
    /\ Checked("disk_image", "chown")
    /\ sd_card_img' = (sd_card_img \/ pc' = "chown")
    /\ UNCHANGED <<args, TEMPLATE_CONFIG, locals, auxdir, staged, xen_cfg, firmware,
                   sd_card_img_old, mounted, cfgStart, runs>>

\* lines 712-729
Chown ==
    /\ pc = "chown"
    /\ Checked("chown", "fix_mount")
    /\ i' = 2
    /\ UNCHANGED <<args, TEMPLATE_CONFIG, num_domus, num_dom0less, files, cfgStart, runs>>

(* ------------------------------ xen_fixes ----------------------------- *)
\* line 276: mount_rawimage(rawimage_path, partition)
FixMount ==
    /\ pc = "fix_mount"
    /\ invoked' = Append(invoked, "mount " \o Str(i))
    /\ mounted' = mount_rawimage(i)
    /\ pc' = "fix_mkdir"
    /\ UNCHANGED <<args, TEMPLATE_CONFIG, locals, status, auxdir, staged, xen_cfg,
                   firmware, sd_card_img, sd_card_img_old, failedCmd, cfgStart, runs>>

\* lines 280-289: sudo mkdir -p <mountpoint>/var/lib/xen
FixMkdir ==
    /\ pc = "fix_mkdir"
    /\ Checked("mkdir -p " \o Str(i), "fix_sed")
    /\ UNCHANGED <<args, TEMPLATE_CONFIG, locals, files, cfgStart, runs>>

\* lines 292-305: sudo sed -i ... <mountpoint>/etc/inittab
FixSed ==
    /\ pc = "fix_sed"
    /\ Checked("sed " \o Str(i), "fix_umount")
    /\ UNCHANGED <<args, TEMPLATE_CONFIG, locals, files, cfgStart, runs>>

FixUmountEveryVM ==
    /\ pc = "fix_umount"
    /\ invoked' = Append(invoked, "umount " \o Str(i))
    /\ mounted' = umount_rawimage(i)
    /\ IF i < 2 + Len(domU_args) + Len(dom0less_args)
       THEN i' = i + 1 /\ pc' = "fix_mount"
       ELSE i' = i /\ pc' = "cleanup"
    /\ UNCHANGED <<args, TEMPLATE_CONFIG, num_domus, num_dom0less, status, auxdir,
                   staged, xen_cfg, firmware, sd_card_img, sd_card_img_old,
                   failedCmd, cfgStart, runs>>

\* line 308: umount_rawimage(partition), then back in main (754-759) the next
\* partition: 2 for dom0, then 3 .. 2 + len(domU_args)
FixUmount ==
    /\ pc = "fix_umount"
    /\ invoked' = Append(invoked, "umount " \o Str(i))
    /\ mounted' = umount_rawimage(i)
    /\ IF i < 2 + Len(domU_args)
       THEN i' = i + 1 /\ pc' = "fix_mount"
       ELSE i' = i /\ pc' = "cleanup"
    /\ UNCHANGED <<args, TEMPLATE_CONFIG, num_domus, num_dom0less, status, auxdir,
                   staged, xen_cfg, firmware, sd_card_img, sd_card_img_old,
                   failedCmd, cfgStart, runs>>

\* lines 762-763: remove the staging directory unless --debug, and return
Cleanup ==
    /\ pc = "cleanup"
    /\ IF ~ debug
       THEN /\ invoked' = Append(invoked, "rm -r")
            /\ auxdir' = FALSE
            /\ staged' = {}
            /\ xen_cfg' = <<>>
       ELSE UNCHANGED <<invoked, auxdir, staged, xen_cfg>>
    /\ Ends("returned")
    /\ UNCHANGED <<args, TEMPLATE_CONFIG, locals, firmware, sd_card_img,
                   sd_card_img_old, mounted, failedCmd, cfgStart, runs>>

(* --------------------------- specification ---------------------------- *)
Next ==
    \/ CheckRequested
    \/ Mkdir
    \/ SaveLastImage
    \/ NoDom0
    \/ ArgumentChecks
    \/ Dom0Kernel
    \/ Dom0Rootfs
    \/ DomU
    \/ DomUDone
    \/ Dom0less
    \/ NumDomus
    \/ CopyBootAndDefaults
    \/ CopyRamdisk
    \/ CopyRamdisksDone
    \/ CopyRootfs
    \/ WriteConfig
    \/ BootScript
    \/ Whoami
    \/ DiskImage
    \/ Chown
    \/ FixMount
    \/ FixMkdir
    \/ FixSed
    \/ FixUmount
    \/ Cleanup

Spec == Init /\ [][Next]_vars


\* main is a method: after it has returned, the same process can call it
\* again with other arguments.  The module-level TEMPLATE_CONFIG and the file
\* system are what the earlier call left; the locals start afresh (340-341).
\* The number of calls, and the text carried over, are capped.
MainAgain ==
    /\ pc = "done"
    /\ status = "returned"
    /\ runs < MaxRuns
    /\ Len(TEMPLATE_CONFIG) <= Len(TEMPLATE_CONFIG_INITIAL) + MaxCarried
    /\ dom0_arg' \in Variants \cup {"none"}
    /\ domU_args' \in SeqsUpTo(Variants, MaxDomU)
    /\ dom0less_args' \in SeqsUpTo(Variants, MaxDom0less)
    /\ ramdisk_args' \in Prefixes(RamdiskNames, MaxRamdisk)
    /\ rootfs_args' \in Prefixes(RootfsNames, MaxRootfs)
    /\ debug' \in BOOLEAN
    /\ num_domus' = 0
    /\ num_dom0less' = 0
    /\ i' = 1
    /\ pc' = "start"
    /\ status' = "running"
    /\ invoked' = <<>>
    /\ failedCmd' = "none"
    /\ cfgStart' = Len(TEMPLATE_CONFIG)
    /\ runs' = runs + 1
    /\ UNCHANGED <<TEMPLATE_CONFIG, files>>

NextAgain == Next \/ MainAgain

\* a process started on a complete firmware directory with no staging
\* directory and no earlier image
InitClean ==
    /\ Init
    /\ firmware = Artifacts
    /\ ~ auxdir
    /\ ~ sd_card_img
    /\ ~ sd_card_img_old

SpecAgain == InitClean /\ [][NextAgain]_vars

\* one call of main in such a process
SpecClean == InitClean /\ [][Next]_vars

\* a process with no staging directory and no earlier image, on a firmware
\* directory that holds every artifact of the firmware package but may lack
\* paths the user named with --rootfs or --ramdisk
InitOverrides ==
    /\ Init
    /\ (Artifacts \ firmware) \subseteq (Range(rootfs_args) \cup Range(ramdisk_args))
    /\ ~ auxdir
    /\ ~ sd_card_img
    /\ ~ sd_card_img_old

SpecOverrides == InitOverrides /\ [][Next]_vars

\* a process without --debug on a complete firmware directory in which an
\* earlier build may have left sd_card.img, and the build before that
\* sd_card.img.old
InitPrevious ==
    /\ Init
    /\ firmware = Artifacts
    /\ ~ debug
    /\ ~ auxdir
    /\ sd_card_img_old => sd_card_img

SpecPrevious == InitPrevious /\ [][Next]_vars


(* ------------------------------ properties ---------------------------- *)
\* the lines the current run of main has appended to TEMPLATE_CONFIG
ThisRun == SubSeq(TEMPLATE_CONFIG, cfgStart + 1, Len(TEMPLATE_CONFIG))

RECURSIVE WithKey(_, _)
\* the lines of a text that carry a given key, in order
WithKey(text, key) ==
    IF text = <<>> THEN <<>>
    ELSE IF Head(text).k = key
         THEN <<Head(text)>> \o WithKey(Tail(text), key)
         ELSE WithKey(Tail(text), key)

Last(text) == text[Len(text)]

\* the run has emitted its whole configuration (NUM_DOMUS included)
Emitted ==
    /\ status = "running"
    /\ pc \notin {"start", "mkdir", "save", "dom0", "dom0_kernel", "dom0_rootfs",
                  "domU", "dom0less"}

\* the run has been through argument_checks
Checked_ == pc \notin {"start", "mkdir", "save", "dom0"}

\* C1: in every accepted run with dom0, the NUM_DOMUS value at the end of the
\* configuration written to xen.cfg is 1 + len(domU) + len(dom0less).
C1_NumDomusCountsEveryVM ==
    pc = "bootscript" =>
        Last(xen_cfg) =
            Line("NUM_DOMUS", -1, Str(1 + Len(domU_args) + Len(dom0less_args)))

\* C2: in every accepted run with dom0, the DOMU_KERNEL keys emitted are
\* 1, 2, ..., len(domU) + len(dom0less) in the order domU*, dom0less* (dom0
\* holding index 0): the j-th domU at 1+j, the k-th dom0less at 1+len(domU)+k.
C2_KeysSequentialFromOne ==
    Emitted =>
        LET kernels == WithKey(ThisRun, "DOMU_KERNEL")
        IN  /\ Len(kernels) = Len(domU_args) + Len(dom0less_args)
            /\ \A n \in 1..Len(kernels) : kernels[n].i = n

\* C3: dom0 takes rootfs_args[0] if there is one, else the default rootfs; the
\* j-th domU takes rootfs_args[1+j] if that position exists, else the default
\* rootfs; the k-th dom0less takes ramdisk_args[k] if it exists, else the default
\* ramdisk.  So no ramdisk override is written to a rootfs entry, no rootfs
\* override to a ramdisk entry, and without rootfs overrides every rootfs entry
\* is the default.  (Python positions are 0-based, sequences here 1-based.)
C3_IndependentCursors ==
    LET dom0s == WithKey(ThisRun, "DOM0_ROOTFS")
        domus == WithKey(ThisRun, "DOMU_ROOTFS")
        less == WithKey(ThisRun, "DOMU_RAMDISK")
    IN  /\ \A n \in 1..Len(dom0s) :
              dom0s[n].v = IF Len(rootfs_args) >= 1 THEN rootfs_args[1]
                           ELSE default_rootfs
        /\ \A n \in 1..Len(domus) :
              domus[n].v = IF Len(rootfs_args) >= n + 1 THEN rootfs_args[n + 1]
                           ELSE default_rootfs
        /\ \A n \in 1..Len(less) :
              less[n].v = IF Len(ramdisk_args) >= n THEN ramdisk_args[n]
                          ELSE default_ramdisk
        /\ \A n \in 1..Len(dom0s) : dom0s[n].v \notin Range(ramdisk_args)
        /\ \A n \in 1..Len(domus) : domus[n].v \notin Range(ramdisk_args)
        /\ \A n \in 1..Len(less) : less[n].v \notin Range(rootfs_args)
        /\ rootfs_args = <<>> =>
              \A n \in 1..Len(dom0s \o domus) : (dom0s \o domus)[n].v = default_rootfs
        /\ Emitted =>
              /\ Len(dom0s) = 1
              /\ Len(domus) = Len(domU_args)
              /\ Len(less) = Len(dom0less_args)

\* a run that resolved overrides and defaults for both kinds of slot: two domU
\* with one override left for them, two dom0less with one ramdisk override
C3_Witness ==
    /\ Emitted
    /\ Len(domU_args) = 2
    /\ Len(rootfs_args) = 2
    /\ Len(dom0less_args) = 2
    /\ Len(ramdisk_args) = 1
    /\ WithKey(ThisRun, "DOMU_ROOTFS")[1].v = rootfs_args[2]
    /\ WithKey(ThisRun, "DOMU_ROOTFS")[2].v = default_rootfs
    /\ WithKey(ThisRun, "DOMU_RAMDISK")[1].v = ramdisk_args[1]
    /\ WithKey(ThisRun, "DOMU_RAMDISK")[2].v = default_ramdisk


\* the run was ended by sys.exit(1) or an uncaught exception before it
\* appended anything to the configuration or wrote xen.cfg
RejectedBeforeConfig ==
    /\ pc = "done"
    /\ ExitCode(status) = 1
    /\ ThisRun = <<>>
    /\ xen_cfg = <<>>

\* C4: with dom0 requested, a request with more ramdisk overrides than dom0less
\* VMs is rejected with exit status 1 before any configuration is produced,
\* whatever the number of domU and dom0less VMs (zero included).
C4_ExcessRamdisksRejected ==
    (dom0_arg # "none" /\ Len(ramdisk_args) > Len(dom0less_args) /\ Checked_)
        => RejectedBeforeConfig

\* C5: with dom0 requested and rootfs overrides supplied, the rootfs check of
\* argument_checks (reached once the ramdisk check has passed) ends the run as
\* "too many rootfs" exactly when len(rootfs) > len(domU) + len(dom0less) + 1,
\* an omitted option counting as length 0; otherwise it completes and does not
\* end the run in any way.
C5_RootfsCheckExact ==
    (dom0_arg # "none" /\ rootfs_args # <<>> /\ Checked_
       /\ status # "TooManyRamdisks")
        => IF Len(rootfs_args) > Len(domU_args) + Len(dom0less_args) + 1
           THEN status = "TooManyRootfs"
           ELSE status \notin {"TooManyRootfs", "TypeError"}

ValidationErrors == {"TooManyRamdisks", "TooManyRootfs", "TooManyOverrides"}

\* C6: a run that ends with a validation failure of argument_checks has
\* performed no file-system operation: no mkdir of the staging directory, no
\* rm or mv of an earlier image, no cp.
C6_ValidationBeforeFileIO ==
    status \in ValidationErrors => invoked = <<>>

\* C7: once an external command of the run has written to stderr, the run has
\* exited with status 1 (so no later step runs).
C7_FailFastOnEveryCommand ==
    failedCmd # "none" => (pc = "done" /\ status = "exit1")

\* C8: a request without dom0 but with a domU or dom0less VM does nothing: no
\* configuration written, no builder invoked, no partition patched, and an
\* existing sd_card.img / sd_card.img.old neither deleted nor renamed.
C8_NoDom0DoesNothing ==
    (dom0_arg = "none" /\ (domU_args # <<>> \/ dom0less_args # <<>>))
        => /\ xen_cfg = <<>>
           /\ ThisRun = <<>>
           /\ mounted = {}
           /\ Range(invoked) \cap
                 {"rm", "mv", "uboot-script-gen", "disk_image", "mount 2"} = {}

\* C9: whatever runs of main came before in the process, the text a run
\* writes to xen.cfg is the fixed header followed by that run's own entries
\* only, with exactly one DOM0_KERNEL, one DOM0_ROOTFS and one NUM_DOMUS line.
C9_ConfigOfThisRunOnly ==
    pc = "bootscript" =>
        /\ xen_cfg = TEMPLATE_CONFIG_INITIAL \o ThisRun
        /\ Len(WithKey(xen_cfg, "DOM0_KERNEL")) = 1
        /\ Len(WithKey(xen_cfg, "DOM0_ROOTFS")) = 1
        /\ Len(WithKey(xen_cfg, "NUM_DOMUS")) = 1

\* the variants of the VMs of this run
VariantsUsed ==
    (IF dom0_arg = "none" THEN {} ELSE {dom0_arg})
    \cup Range(domU_args) \cup Range(dom0less_args)

\* C10: when the boot-script generator is invoked, Image is staged iff some VM
\* is vanilla, Image_PREEMPT_RT iff some VM is preempt_rt, the default rootfs
\* and ramdisk are staged, and so is every rootfs and ramdisk override.
C10_StagedExactlyWhatIsCalledFor ==
    pc = "bootscript" =>
        /\ "Image" \in staged <=> "vanilla" \in VariantsUsed
        /\ "Image_PREEMPT_RT" \in staged <=> "preempt_rt" \in VariantsUsed
        /\ {default_rootfs, default_ramdisk} \subseteq staged
        /\ Range(rootfs_args) \cup Range(ramdisk_args) \subseteq staged


\* some --rootfs or --ramdisk path of the request is not in the firmware directory
OverrideAbsent ==
    \E path \in Range(rootfs_args) \cup Range(ramdisk_args) : ~ exists(path)

NothingRequested ==
    dom0_arg = "none" /\ domU_args = None /\ dom0less_args = None

\* C12: when none of --dom0, --domU and --dom0less is given, the first step
\* of main ends the run with exit status 0, and that step invokes no
\* command and leaves every file as it was: no staging directory is made, no
\* earlier image is moved or deleted, no configuration is written and no
\* builder runs.
C12_NothingRequestedDoesNothing ==
    [][ NothingRequested =>
            /\ pc = "start"
            /\ pc' = "done"
            /\ ExitCode(status') = 0
            /\ status' = "exit0"
            /\ invoked' = <<>>
            /\ UNCHANGED <<files, TEMPLATE_CONFIG>> ]_vars

C12_Witness ==
    /\ NothingRequested
    /\ pc = "done"
    /\ status = "exit0"
    /\ sd_card_img
    /\ sd_card_img_old
    /\ Truthy(rootfs_args)

\* the commands of xen_fixes(p), in the order the function issues them
FixCommands(p) ==
    <<"mount " \o Str(p), "mkdir -p " \o Str(p), "sed " \o Str(p), "umount " \o Str(p)>>

RECURSIVE FixesFrom(_, _)
FixesFrom(p, last) ==
    IF p > last THEN <<>> ELSE FixCommands(p) \o FixesFrom(p + 1, last)

\* the fixups of one partition per VM a request can name
AllFixes == FixesFrom(2, 2 + MaxDomU + MaxDom0less)

\* the fixups a build for this request is to apply: partition 2, then one
\* partition per domU
ExpectedFixes == SubSeq(AllFixes, 1, 4 * (1 + Len(domU_args)))

FixCmds == Range(AllFixes)

IsFix(cmd) == cmd \in FixCmds

\* the fixup commands this run has issued, in order
FixLog == SelectSeq(invoked, IsFix)

C14_MountUnmountPaired ==
    /\ Cardinality(mounted) <= 1
    /\ pc \notin {"fix_mkdir", "fix_sed", "fix_umount"} => mounted = {}

=========================================================================
